---- MODULE Spec2Model ----
(***************************************************************************)
(* Model of flux_led/protocol.py: the LEDENET message codec.               *)
(*                                                                         *)
(* Three protocol variants (ProtocolLEDENETOriginal, ProtocolLEDENET8Byte, *)
(* ProtocolLEDENET9Byte) build outgoing messages and validate and name     *)
(* incoming state responses.  A byte sequence (bytes / bytearray) is a     *)
(* TLA+ sequence of numbers in 0..255; Python's 0-based index i is the     *)
(* TLA+ index i+1.  A call that can raise returns a record whose field     *)
(* `raised` tells whether it did.  A call that takes a bytearray returns   *)
(* both its return value and the content of the argument after the call,   *)
(* since a bytearray is mutable and is passed by reference.                *)
(***************************************************************************)
EXTENDS Integers, Sequences, FiniteSets, TLC

VARIABLES variant, op, args, buffer, msg, response, valid, named, corrupted

vars == <<variant, op, args, buffer, msg, response, valid, named, corrupted>>

----------------------------------------------------------------------------
(* Bounds of the model.                                                    *)

\* number of strided extra channel levels besides the ones the source names
NumLevels == 2
\* number of strided extra byte values a received response may carry
NumBytes == 2
\* longest received response (one more than the longest valid one at least)
MaxRespLen == 15
\* longest buffer construct_message is applied to
MaxMsgLen == 6
\* number of payload positions varied in the responses that get corrupted
NumBases == 4

Stride == 37

Byte == 0..255

----------------------------------------------------------------------------
(* Module constants, protocol.py lines 10-35.                              *)

PROTOCOL_LEDENET_ORIGINAL == "LEDENET_ORIGINAL"
PROTOCOL_LEDENET_9BYTE == "LEDENET"
PROTOCOL_LEDENET_8BYTE == "LEDENET_8BYTE"

LEDENET_ORIGINAL_STATE_RESPONSE_LEN == 11
LEDENET_STATE_RESPONSE_LEN == 14

LEDENET_BASE_STATE ==
    << "head", "model_num", "power_state", "preset_pattern", "mode",
       "speed", "red", "green", "blue", "warm_white" >>

\* class LevelWriteMode(Enum): member name -> .value
LevelWriteMode == [ALL |-> 0, COLORS |-> 240, WHITES |-> 15]

\* field names of the two namedtuples
LEDENETOriginalRawState == LEDENET_BASE_STATE \o << "check_sum" >>

\* mutant: version_number and cool_white listed in the other order
LEDENETRawState_Swapped ==
    LEDENET_BASE_STATE \o
        << "cool_white", "version_number", "color_mode", "check_sum" >>

LEDENETRawState ==
    LEDENET_BASE_STATE \o
        << "version_number", "cool_white", "color_mode", "check_sum" >>

----------------------------------------------------------------------------
(* Python built-ins the code uses.                                         *)

RECURSIVE sum(_)
\* sum(iterable of ints): unbounded integer addition
sum(s) == IF s = << >> THEN 0 ELSE s[1] + sum(Tail(s))

\* n & 0xFF for a non-negative int n
And0xFF(n) == n % 256

\* s[0:-1]: a slice never raises; it is empty for len(s) <= 1
SliceButLast(s) == IF Len(s) = 0 THEN << >> ELSE SubSeq(s, 1, Len(s) - 1)

\* whether s[i] (Python index i, negative counts from the end) is in range
InRange(s, i) == IF i >= 0 THEN i < Len(s) ELSE -i <= Len(s)

\* s[i] for an index in range
At(s, i) == IF i >= 0 THEN s[i + 1] ELSE s[Len(s) + i + 1]

\* results of a call that returns a bool or raises
Return(b) == [called |-> TRUE, raised |-> FALSE, value |-> b]
Raise == [called |-> TRUE, raised |-> TRUE, value |-> FALSE]
NotCalled == [called |-> FALSE, raised |-> FALSE, value |-> FALSE]

\* namedtuple(fields)(*values): one (name, value) pair per field, in the
\* order of the fields; TypeError unless one value is given per field
Namedtuple(fields, values) ==
    IF Len(values) # Len(fields)
    THEN [raised |-> TRUE, fields |-> << >>]
    ELSE [raised |-> FALSE,
          fields |-> [i \in 1..Len(fields) |-> << fields[i], values[i] >>]]

----------------------------------------------------------------------------
(* ProtocolBase                                                            *)

on_byte == 35    \* 0x23

off_byte == 36   \* 0x24

----------------------------------------------------------------------------
(* ProtocolLEDENETOriginal                                                 *)

Original_state_response_length == LEDENET_ORIGINAL_STATE_RESPONSE_LEN

\* mutant: indexes raw_state[1] before it looks at the length
Original_is_valid_state_response_IndexFirst(raw_state) ==
    IF ~InRange(raw_state, 1) THEN Raise
    ELSE Return(At(raw_state, 1) = 1
                /\ Len(raw_state) = Original_state_response_length)

\* mutant: checks the head byte instead of the byte at index 1
Original_is_valid_state_response_Head(raw_state) ==
    IF Len(raw_state) # Original_state_response_length THEN Return(FALSE)
    ELSE Return(At(raw_state, 0) = 1)

\* len(raw_state) == self.state_response_length and raw_state[1] == 0x01
\* (`and` evaluates its right operand only when the left one is true)
Original_is_valid_state_response(raw_state) ==
    IF Len(raw_state) # Original_state_response_length THEN Return(FALSE)
    ELSE IF ~InRange(raw_state, 1) THEN Raise
    ELSE Return(At(raw_state, 1) = 1)

\* return raw_bytes: the argument itself, untouched
Original_construct_message(raw_bytes) ==
    [ret |-> raw_bytes, raw_bytes |-> raw_bytes]

Original_construct_state_query ==
    Original_construct_message(<< 239, 1, 119 >>).ret     \* EF 01 77

\* mutant: on and off bytes exchanged
Original_construct_state_change_Swapped(turn_on) ==
    Original_construct_message(
        << 204, IF turn_on THEN off_byte ELSE on_byte, 51 >>).ret

Original_construct_state_change(turn_on) ==
    Original_construct_message(
        << 204, IF turn_on THEN on_byte ELSE off_byte, 51 >>).ret  \* CC .. 33

Original_construct_levels_change(persist, red, green, blue, warm_white, cool_white, color_mask) ==
    Original_construct_message(<< 86, red, green, blue, 170 >>).ret \* 56 .. AA

Original_named_raw_state(raw_state) ==
    Namedtuple(LEDENETOriginalRawState, raw_state)

----------------------------------------------------------------------------
(* ProtocolLEDENET8Byte                                                    *)

LEDENET8Byte_state_response_length == LEDENET_STATE_RESPONSE_LEN

\* mutant: the head byte is not looked at
LEDENET8Byte_is_valid_state_response_NoHead(raw_state) ==
    IF Len(raw_state) # LEDENET8Byte_state_response_length THEN Return(FALSE)
    ELSE LET expected_sum == And0xFF(sum(SliceButLast(raw_state)))
         IN  IF ~InRange(raw_state, -1) THEN Raise
             ELSE IF expected_sum # At(raw_state, -1) THEN Return(FALSE)
             ELSE Return(TRUE)

\* mutant: the head byte is read before the length is checked
LEDENET8Byte_is_valid_state_response_IndexFirst(raw_state) ==
    IF ~InRange(raw_state, 0) THEN Raise
    ELSE IF At(raw_state, 0) # 129 THEN Return(FALSE)
    ELSE IF Len(raw_state) # LEDENET8Byte_state_response_length
    THEN Return(FALSE)
    ELSE LET expected_sum == And0xFF(sum(SliceButLast(raw_state)))
         IN  IF ~InRange(raw_state, -1) THEN Raise
             ELSE IF expected_sum # At(raw_state, -1) THEN Return(FALSE)
             ELSE Return(TRUE)

\* mutant: the sum is masked with 0x7F instead of 0xFF on both sides
LEDENET8Byte_is_valid_state_response_Mask7(raw_state) ==
    IF Len(raw_state) # LEDENET8Byte_state_response_length THEN Return(FALSE)
    ELSE IF ~InRange(raw_state, 0) THEN Raise
    ELSE IF At(raw_state, 0) # 129 THEN Return(FALSE)
    ELSE LET expected_sum == sum(SliceButLast(raw_state)) % 128
         IN  IF ~InRange(raw_state, -1) THEN Raise
             ELSE IF expected_sum # At(raw_state, -1) % 128 THEN Return(FALSE)
             ELSE Return(TRUE)

\* lines 218-230; the warning logged on a checksum mismatch changes no state
LEDENET8Byte_is_valid_state_response(raw_state) ==
    IF Len(raw_state) # LEDENET8Byte_state_response_length THEN Return(FALSE)
    ELSE IF ~InRange(raw_state, 0) THEN Raise
    ELSE IF At(raw_state, 0) # 129 THEN Return(FALSE)            \* 0x81
    ELSE LET expected_sum == And0xFF(sum(SliceButLast(raw_state)))
         IN  IF ~InRange(raw_state, -1) THEN Raise
             ELSE IF expected_sum # At(raw_state, -1) THEN Return(FALSE)
             ELSE Return(TRUE)

\* mutant: the sum is masked with 0x7F instead of 0xFF
LEDENET8Byte_construct_message_Mask7(raw_bytes) ==
    LET csum == sum(raw_bytes) % 128
    IN  [ret |-> Append(raw_bytes, csum), raw_bytes |-> Append(raw_bytes, csum)]

\* csum = sum(raw_bytes) & 0xFF; raw_bytes.append(csum); return raw_bytes
\* append changes the bytearray passed in, and that same object is returned
LEDENET8Byte_construct_message(raw_bytes) ==
    LET csum == And0xFF(sum(raw_bytes))
    IN  [ret |-> Append(raw_bytes, csum), raw_bytes |-> Append(raw_bytes, csum)]

\* mutant: a wrong query opcode
LEDENET8Byte_construct_state_query_Wrong ==
    LEDENET8Byte_construct_message(<< 129, 138, 141 >>).ret

LEDENET8Byte_construct_state_query ==
    LEDENET8Byte_construct_message(<< 129, 138, 139 >>).ret     \* 81 8A 8B

LEDENET8Byte_construct_state_change(turn_on) ==
    LEDENET8Byte_construct_message(
        << 113, IF turn_on THEN on_byte ELSE off_byte, 15 >>).ret  \* 71 .. 0F

LEDENET8Byte_construct_levels_change(persist, red, green, blue, warm_white, cool_white, write_mode) ==
    LEDENET8Byte_construct_message(
        << IF persist THEN 49 ELSE 65,                           \* 31 / 41
           red, green, blue, warm_white,
           LevelWriteMode[write_mode],
           15 >>).ret

LEDENET8Byte_named_raw_state(raw_state) ==
    Namedtuple(LEDENETRawState, raw_state)

----------------------------------------------------------------------------
(* ProtocolLEDENET9Byte(ProtocolLEDENET8Byte): everything but              *)
(* construct_levels_change and name is inherited.                          *)

\* mutant: warm and cold white exchanged
LEDENET9Byte_construct_levels_change_Swapped(persist, red, green, blue, warm_white, cool_white, write_mode) ==
    LEDENET8Byte_construct_message(
        << IF persist THEN 49 ELSE 65,
           red, green, blue, cool_white, warm_white,
           LevelWriteMode[write_mode],
           15 >>).ret

LEDENET9Byte_construct_levels_change(persist, red, green, blue, warm_white, cool_white, write_mode) ==
    LEDENET8Byte_construct_message(
        << IF persist THEN 49 ELSE 65,                           \* 31 / 41
           red, green, blue, warm_white, cool_white,
           LevelWriteMode[write_mode],
           15 >>).ret

----------------------------------------------------------------------------
(* Method dispatch on the variant, identified by its name.                 *)

Variants ==
    { PROTOCOL_LEDENET_ORIGINAL, PROTOCOL_LEDENET_8BYTE, PROTOCOL_LEDENET_9BYTE }

Checksummed == { PROTOCOL_LEDENET_8BYTE, PROTOCOL_LEDENET_9BYTE }

state_response_length(v) ==
    IF v = PROTOCOL_LEDENET_ORIGINAL THEN Original_state_response_length
    ELSE LEDENET8Byte_state_response_length

is_valid_state_response(v, raw_state) ==
    IF v = PROTOCOL_LEDENET_ORIGINAL
    THEN Original_is_valid_state_response(raw_state)
    ELSE LEDENET8Byte_is_valid_state_response(raw_state)

construct_message(v, raw_bytes) ==
    IF v = PROTOCOL_LEDENET_ORIGINAL THEN Original_construct_message(raw_bytes)
    ELSE LEDENET8Byte_construct_message(raw_bytes)

construct_state_query(v) ==
    IF v = PROTOCOL_LEDENET_ORIGINAL THEN Original_construct_state_query
    ELSE LEDENET8Byte_construct_state_query

construct_state_change(v, turn_on) ==
    IF v = PROTOCOL_LEDENET_ORIGINAL THEN Original_construct_state_change(turn_on)
    ELSE LEDENET8Byte_construct_state_change(turn_on)

construct_levels_change(v, persist, red, green, blue, warm_white, cool_white, write_mode) ==
    CASE v = PROTOCOL_LEDENET_ORIGINAL ->
            Original_construct_levels_change(persist, red, green, blue,
                                             warm_white, cool_white, write_mode)
      [] v = PROTOCOL_LEDENET_8BYTE ->
            LEDENET8Byte_construct_levels_change(persist, red, green, blue,
                                             warm_white, cool_white, write_mode)
      [] v = PROTOCOL_LEDENET_9BYTE ->
            LEDENET9Byte_construct_levels_change(persist, red, green, blue,
                                             warm_white, cool_white, write_mode)

named_raw_state(v, raw_state) ==
    IF v = PROTOCOL_LEDENET_ORIGINAL THEN Original_named_raw_state(raw_state)
    ELSE LEDENET8Byte_named_raw_state(raw_state)

----------------------------------------------------------------------------
(* Inputs.  The codec keeps nothing between calls, so the state of the     *)
(* model is the frame of the call in progress: the variant bound to the    *)
(* connection, the operation called, its arguments, the caller's buffers   *)
(* and what the call returned.  A call starts from an empty frame, and the *)
(* caller drops the frame when it is done with the result.                 *)

\* the state responses quoted in the source, lines 47 and 75
TypicalOriginalResponse ==
    << 102, 1, 36, 57, 33, 10, 255, 0, 0, 1, 153 >>

TypicalLEDENETResponse ==
    << 129, 37, 35, 97, 33, 6, 56, 5, 6, 249, 1, 0, 15, 157 >>

Templates == { TypicalOriginalResponse, TypicalLEDENETResponse }

\* channel levels: those of the sample messages in the source, and a stride
LevelSample == { 0, 188, 193, 255 } \cup { (k * Stride) % 256 : k \in 1..NumLevels }

\* byte values written into a response
ByteSample == { 1, 129 } \cup { (k * Stride) % 256 : k \in 0..NumBytes }

\* t cut or zero-padded to n bytes
Resize(t, n) == [i \in 1..n |-> IF i <= Len(t) THEN t[i] ELSE 0]

\* s with the byte at (1-based) position p replaced, when it has one
WithByte(s, p, b) == IF p \in DOMAIN s THEN [s EXCEPT ![p] = b] ELSE s

\* s with its last byte set d above the checksum of the bytes before it
WithTrailer(s, d) ==
    IF Len(s) = 0 THEN s
    ELSE [s EXCEPT ![Len(s)] = (sum(SliceButLast(s)) + d + 256) % 256]

TrailerChoices == { "keep", "below", "exact", "above" }

Trailed(s, c) ==
    CASE c = "keep" -> s
      [] c = "below" -> WithTrailer(s, -1)
      [] c = "exact" -> WithTrailer(s, 0)
      [] c = "above" -> WithTrailer(s, 1)

\* the responses a connection may deliver: any length up to MaxRespLen, one
\* byte set to a sampled value, the trailer kept, correct, or off by one
Responses ==
    { Trailed(WithByte(Resize(t, n), p, b), c) :
        t \in Templates, n \in 0..MaxRespLen, p \in 1..MaxRespLen,
        b \in ByteSample, c \in TrailerChoices }

\* the responses that are then corrupted in transit
Bases ==
    Templates \cup
    { WithTrailer(WithByte(TypicalLEDENETResponse, p, 255), 0) : p \in 2..(1 + NumBases) }

\* the buffers a caller hands to construct_message itself
Payloads ==
    { << >>, << 239, 1, 119 >>, << 129, 138, 139 >> } \cup
    { << 113, b, 15 >> : b \in { on_byte, off_byte } } \cup
    { << a, b >> : a \in ByteSample, b \in ByteSample }

Bools == { TRUE, FALSE }

WriteModes == { "ALL", "COLORS", "WHITES" }

NoArgs ==
    [turn_on |-> FALSE, persist |-> FALSE, red |-> 0, green |-> 0, blue |-> 0,
     warm_white |-> 0, cool_white |-> 0, write_mode |-> "ALL"]

NotNamed == [raised |-> FALSE, fields |-> << >>]

----------------------------------------------------------------------------
(* The state machine.                                                      *)

Init ==
    /\ variant \in Variants
    /\ op = "idle"
    /\ args = NoArgs
    /\ buffer = << >>
    /\ msg = << >>
    /\ response = << >>
    /\ valid = NotCalled
    /\ named = NotNamed
    /\ corrupted = FALSE

NoResponse ==
    /\ response' = << >>
    /\ valid' = NotCalled
    /\ named' = NotNamed
    /\ corrupted' = FALSE

NoMessage ==
    /\ args' = NoArgs
    /\ buffer' = << >>
    /\ msg' = << >>

ConstructStateQuery ==
    /\ op = "idle"
    /\ op' = "construct_state_query"
    /\ args' = NoArgs
    /\ buffer' = << >>
    /\ msg' = construct_state_query(variant)
    /\ NoResponse
    /\ UNCHANGED variant

ConstructStateChange ==
    /\ op = "idle"
    /\ \E turn_on \in Bools :
        /\ op' = "construct_state_change"
        /\ args' = [NoArgs EXCEPT !.turn_on = turn_on]
        /\ buffer' = << >>
        /\ msg' = construct_state_change(variant, turn_on)
        /\ NoResponse
        /\ UNCHANGED variant

ConstructLevelsChange ==
    /\ op = "idle"
    /\ \E persist \in Bools, write_mode \in WriteModes,
          red \in LevelSample, green \in LevelSample, blue \in LevelSample,
          warm_white \in LevelSample, cool_white \in LevelSample :
        /\ op' = "construct_levels_change"
        /\ args' = [turn_on |-> FALSE, persist |-> persist, red |-> red,
                    green |-> green, blue |-> blue, warm_white |-> warm_white,
                    cool_white |-> cool_white, write_mode |-> write_mode]
        /\ buffer' = << >>
        /\ msg' = construct_levels_change(variant, persist, red, green, blue,
                                          warm_white, cool_white, write_mode)
        /\ NoResponse
        /\ UNCHANGED variant

\* the caller fills a bytearray of its own
NewBuffer ==
    /\ op = "idle"
    /\ \E p \in Payloads :
        /\ op' = "bytearray"
        /\ args' = NoArgs
        /\ buffer' = p
        /\ msg' = << >>
        /\ NoResponse
        /\ UNCHANGED variant

\* the caller frames its bytearray: construct_message(buffer)
ConstructMessage ==
    /\ op \in { "bytearray", "construct_message" }
    /\ Len(buffer) < MaxMsgLen
    /\ LET r == construct_message(variant, buffer)
       IN  /\ msg' = r.ret
           /\ buffer' = r.raw_bytes
    /\ op' = "construct_message"
    /\ args' = NoArgs
    /\ NoResponse
    /\ UNCHANGED variant

\* the connection delivers a response
Receive ==
    /\ op = "idle"
    /\ \E r \in Responses :
        /\ op' = "receive"
        /\ response' = r
        /\ valid' = NotCalled
        /\ named' = NotNamed
        /\ corrupted' = FALSE
        /\ NoMessage
        /\ UNCHANGED variant

ReceiveBase ==
    /\ op = "idle"
    /\ \E r \in Bases :
        /\ op' = "receive"
        /\ response' = r
        /\ valid' = NotCalled
        /\ named' = NotNamed
        /\ corrupted' = FALSE
        /\ NoMessage
        /\ UNCHANGED variant

IsValidStateResponse ==
    /\ op \in { "receive", "corrupt" }
    /\ op' = "is_valid_state_response"
    /\ valid' = is_valid_state_response(variant, response)
    /\ UNCHANGED << variant, args, buffer, msg, response, named, corrupted >>

NamedRawState ==
    /\ op = "is_valid_state_response"
    /\ op' = "named_raw_state"
    /\ named' = named_raw_state(variant, response)
    /\ UNCHANGED << variant, args, buffer, msg, response, valid, corrupted >>

\* one byte of a response that was accepted is replaced by another value
Corrupt ==
    /\ op = "is_valid_state_response"
    /\ ~valid.raised /\ valid.value
    /\ ~corrupted
    /\ \E i \in DOMAIN response, b \in Byte :
        /\ b # response[i]
        /\ response' = [response EXCEPT ![i] = b]
    /\ op' = "corrupt"
    /\ corrupted' = TRUE
    /\ valid' = NotCalled
    /\ UNCHANGED << variant, args, buffer, msg, named >>

\* the caller is done with the message or the response and drops the frame
Discard ==
    /\ op # "idle"
    /\ op' = "idle"
    /\ NoMessage
    /\ NoResponse
    /\ UNCHANGED variant

Next ==
    \/ ConstructStateQuery
    \/ ConstructStateChange
    \/ ConstructLevelsChange
    \/ NewBuffer
    \/ ConstructMessage
    \/ Receive
    \/ IsValidStateResponse
    \/ NamedRawState
    \/ Discard

Spec == Init /\ [][Next]_vars

\* a connection whose accepted responses are corrupted and validated again
NextCorrupt ==
    \/ ReceiveBase
    \/ IsValidStateResponse
    \/ Corrupt
    \/ Discard

SpecCorrupt == Init /\ [][NextCorrupt]_vars

----------------------------------------------------------------------------
(* Properties.                                                             *)

Constructors ==
    { "construct_state_query", "construct_state_change", "construct_levels_change" }

\* the checksum the wire format asks for: the sum of the bytes modulo 256
Checksum(s) == sum(s) % 256

\* whether s ends in the checksum of the bytes before it
EndsInChecksum(s) ==
    /\ Len(s) >= 1
    /\ s[Len(s)] = Checksum(SubSeq(s, 1, Len(s) - 1))

\* C1: in the 8-Byte and 9-Byte variants the last byte of every message that
\* construct_state_query, construct_state_change and construct_levels_change
\* return is the sum of the bytes before it modulo 256.
C1_ConstructedMessageChecksum ==
    (op \in Constructors /\ variant \in Checksummed) => EndsInChecksum(msg)

\* a levels-change message whose bytes sum past 255, so that the sum wraps
C1_Witness ==
    /\ op = "construct_levels_change"
    /\ variant \in Checksummed
    /\ sum(SliceButLast(msg)) >= 256
    /\ sum(SliceButLast(msg)) % 256 >= 128

\* the 13 bytes of the quoted response that precede its trailer
ExampleFront == << 129, 37, 35, 97, 33, 6, 56, 5, 6, 249, 1, 0, 15 >>

\* C2: in the 8-Byte and 9-Byte variants is_valid_state_response returns true
\* exactly for a response of 14 bytes whose first byte is 0x81 and whose last
\* byte is the sum of the first 13 modulo 256; the quoted response is accepted
\* with that sum as its last byte and rejected with one more or one less.
C2_ValidIffLengthHeadChecksum ==
    (op = "is_valid_state_response" /\ variant \in Checksummed) =>
        /\ ~valid.raised
        /\ valid.value <=>
             /\ Len(response) = 14
             /\ response[1] = 129
             /\ response[14] = Checksum(SubSeq(response, 1, 13))
        /\ (Len(response) = 14 /\ SubSeq(response, 1, 13) = ExampleFront) =>
             /\ response[14] = Checksum(ExampleFront) => valid.value
             /\ response[14] = (Checksum(ExampleFront) + 1) % 256 => ~valid.value
             /\ response[14] = (Checksum(ExampleFront) + 255) % 256 => ~valid.value

\* the quoted response with a trailer one above the sum, validated
C2_Witness ==
    /\ op = "is_valid_state_response"
    /\ variant \in Checksummed
    /\ response = ExampleFront \o << (Checksum(ExampleFront) + 1) % 256 >>
    /\ ~valid.value

\* C3: in the Original variant is_valid_state_response returns true exactly
\* for a response of 11 bytes whose byte at index 1 is 0x01, whatever the
\* other bytes are.
C3_OriginalValidIffLengthAndByte1 ==
    (op = "is_valid_state_response" /\ variant = PROTOCOL_LEDENET_ORIGINAL) =>
        /\ ~valid.raised
        /\ valid.value <=> (Len(response) = 11 /\ response[2] = 1)

\* an 11-byte response accepted although its head is that of the other format
C3_Witness ==
    /\ op = "is_valid_state_response"
    /\ variant = PROTOCOL_LEDENET_ORIGINAL
    /\ Len(response) = 11
    /\ response[1] = 129
    /\ valid.value

\* C4: in all three variants is_valid_state_response returns false, and raises
\* nothing, for a response whose length is not the variant's
\* state_response_length (11 for Original, 14 for 8-Byte and 9-Byte).
C4_WrongLengthRejectedWithoutError ==
    (/\ op = "is_valid_state_response"
     /\ Len(response) # (IF variant = PROTOCOL_LEDENET_ORIGINAL THEN 11 ELSE 14)) =>
        (~valid.raised /\ ~valid.value)

\* the empty response, validated by a checksummed variant
C4_Witness ==
    /\ op = "is_valid_state_response"
    /\ variant \in Checksummed
    /\ response = << >>
    /\ valid.called

\* C5 as stated: the 8-Byte state query is [0x81, 0x8A, 0x8B, 0x98].
C5_StateQueryEndsIn0x98 ==
    (op = "construct_state_query" /\ variant = PROTOCOL_LEDENET_8BYTE) =>
        msg = << 129, 138, 139, 152 >>

\* C5 amended: the 8-Byte state query is [0x81, 0x8A, 0x8B, 0x96], 0x96 being
\* (0x81 + 0x8A + 0x8B) mod 256.
C5_StateQueryEndsIn0x96 ==
    (op = "construct_state_query" /\ variant = PROTOCOL_LEDENET_8BYTE) =>
        /\ msg = << 129, 138, 139, 150 >>
        /\ (129 + 138 + 139) % 256 = 150

C5_Witness ==
    /\ op = "construct_state_query"
    /\ variant = PROTOCOL_LEDENET_8BYTE
    /\ Len(msg) = 4

\* the field names of the extended layout, in order
ExtendedLayout ==
    << "head", "model_num", "power_state", "preset_pattern", "mode", "speed",
       "red", "green", "blue", "warm_white", "version_number", "cool_white",
       "color_mode", "check_sum" >>

\* C6: in the 8-Byte and 9-Byte variants a 14-byte response with first byte
\* 0x81 and a correct checksum is accepted by is_valid_state_response, and
\* named_raw_state gives a record of exactly the 14 fields of the extended
\* layout, in order, the i-th field holding the i-th byte.
C6_RoundTrip ==
    (/\ op = "named_raw_state"
     /\ variant \in Checksummed
     /\ Len(response) = 14
     /\ response[1] = 129
     /\ EndsInChecksum(response)) =>
        /\ ~valid.raised /\ valid.value
        /\ ~named.raised
        /\ Len(named.fields) = 14
        /\ \A i \in 1..14 : named.fields[i] = << ExtendedLayout[i], response[i] >>

\* a named response whose version_number and cool_white bytes differ
C6_Witness ==
    /\ op = "named_raw_state"
    /\ variant \in Checksummed
    /\ Len(response) = 14
    /\ response[1] = 129
    /\ EndsInChecksum(response)
    /\ response[11] # response[12]
    /\ response # TypicalLEDENETResponse
    /\ ~named.raised

ModeCode(m) ==
    CASE m = "ALL" -> 0
      [] m = "COLORS" -> 240
      [] m = "WHITES" -> 15

PersistByte(p) == IF p THEN 49 ELSE 65

\* C7: construct_levels_change gives, in the 8-Byte variant, the 8 bytes
\* [persist_byte, red, green, blue, warm_white, mode_code, 0x0F, checksum]
\* and, in the 9-Byte variant, the 9 bytes [persist_byte, red, green, blue,
\* warm_white, cool_white, mode_code, 0x0F, checksum], persist_byte being 0x31
\* when persist is true and 0x41 otherwise; the quoted 9-Byte call gives
\* [0x31, 0xBC, 0xC1, 0xFF, 0x00, 0x00, 0xF0, 0x0F, checksum].
C7_LevelsChangeLayout ==
    op = "construct_levels_change" =>
        LET a == args
            front8 == << PersistByte(a.persist), a.red, a.green, a.blue,
                         a.warm_white, ModeCode(a.write_mode), 15 >>
            front9 == << PersistByte(a.persist), a.red, a.green, a.blue,
                         a.warm_white, a.cool_white, ModeCode(a.write_mode), 15 >>
        IN  /\ variant = PROTOCOL_LEDENET_8BYTE =>
                 msg = front8 \o << Checksum(front8) >>
            /\ variant = PROTOCOL_LEDENET_9BYTE =>
                 msg = front9 \o << Checksum(front9) >>
            /\ (/\ variant = PROTOCOL_LEDENET_9BYTE
                /\ a.persist /\ a.red = 188 /\ a.green = 193 /\ a.blue = 255
                /\ a.warm_white = 0 /\ a.cool_white = 0
                /\ a.write_mode = "COLORS") =>
                 msg = << 49, 188, 193, 255, 0, 0, 240, 15,
                          (49 + 188 + 193 + 255 + 0 + 0 + 240 + 15) % 256 >>

\* a 9-Byte levels change with different warm and cold white levels
C7_Witness ==
    /\ op = "construct_levels_change"
    /\ variant = PROTOCOL_LEDENET_9BYTE
    /\ args.warm_white = 188
    /\ args.cool_white = 255
    /\ ~args.persist
    /\ args.write_mode = "WHITES"
    /\ Len(msg) = 9

\* C8: construct_state_change puts 0x23 at index 1 when turn_on is true and
\* 0x24 when it is false: the Original variant returns [0xCC, power, 0x33],
\* the 8-Byte and 9-Byte variants [0x71, power, 0x0F, checksum], which is
\* [0x71, 0x23, 0x0F, 0xA3] for turn_on true.
C8_StateChangeLayout ==
    op = "construct_state_change" =>
        LET power == IF args.turn_on THEN 35 ELSE 36
        IN  /\ variant = PROTOCOL_LEDENET_ORIGINAL => msg = << 204, power, 51 >>
            /\ variant \in Checksummed =>
                 /\ msg = << 113, power, 15, (113 + power + 15) % 256 >>
                 /\ args.turn_on => msg = << 113, 35, 15, 163 >>

\* the Original variant switching off
C8_Witness ==
    /\ op = "construct_state_change"
    /\ variant = PROTOCOL_LEDENET_ORIGINAL
    /\ ~args.turn_on
    /\ Len(msg) = 3

\* C9: construct_message leaves the byte sequence passed to it as it was, in
\* length and content, in every variant.
C9_ConstructMessageLeavesArgument ==
    [][op' = "construct_message" => buffer' = buffer]_vars

\* C10: in the 8-Byte and 9-Byte variants, a response that was accepted and
\* then had one byte, at any position, replaced by any other value is rejected.
C10_SingleByteCorruptionRejected ==
    (op = "is_valid_state_response" /\ corrupted /\ variant \in Checksummed) =>
        (~valid.raised /\ ~valid.value)

\* a corrupted response that kept its head byte and whose sum moved by 128
C10_Witness ==
    /\ op = "is_valid_state_response"
    /\ corrupted
    /\ variant \in Checksummed
    /\ response[1] = 129
    /\ response[2] = (37 + 128) % 256
    /\ ~valid.value

====
